---- MODULE Spec2Model ----
(***************************************************************************)
(* The autonomous player of src/PlayerClientAuto3.py: the on_message       *)
(* callback (one decision cycle per game_state message), its bfs path      *)
(* finder, and the module-level list fake_coin_positions.                  *)
(***************************************************************************)
EXTENDS Integers, Sequences, FiniteSets, TLC

\* ------------------------------------------------------------------ bounds
\* at most MaxMsgs game_state messages are delivered in a run
MaxMsgs == 5
\* a snapshot lists at most MaxWalls walls
MaxWalls == 2
\* a snapshot lists at most MaxCoins real coins (coin1 + coin2 + coin3)
MaxCoins == 2
\* a maze of the path-finder specification has at most MaxMazeWalls walls
MaxMazeWalls == 4
\* a run of the closed loop delivers at most MaxLoopMsgs game_state messages
MaxLoopMsgs == 40
\* the step-by-step specification has room for MaxCalls calls of on_message
MaxCalls == 2

\* ------------------------------------------------------- program constants
\* range(10) of the grid comprehension
BoardSize == 10
\* a wider proximity threshold
PruneDistanceWide == 2 + 1
\* the proximity threshold of the fake-coin pruning
PruneDistance == 2

Board == (0 .. BoardSize - 1) \X (0 .. BoardSize - 1)

\* the moves in the opposite order
MoveNamesReversed == <<"RIGHT", "LEFT", "DOWN", "UP">>

\* MOVES: the keys in dict (insertion) order, and their offsets
MoveNames == <<"UP", "DOWN", "LEFT", "RIGHT">>
MOVES == [m \in {"UP", "DOWN", "LEFT", "RIGHT"} |->
            CASE m = "UP" -> <<-1, 0>>
              [] m = "DOWN" -> <<1, 0>>
              [] m = "LEFT" -> <<0, -1>>
              [] m = "RIGHT" -> <<0, 1>>]
Moves == DOMAIN MOVES

Abs(x) == IF x < 0 THEN -x ELSE x

manhattan_distance(pos1, pos2) == Abs(pos1[1] - pos2[1]) + Abs(pos1[2] - pos2[2])

\* a map indexed like a list of rows, where a negative or too large index
\* wraps around
BuildGridWrapping(wall_positions) ==
    [c \in Board |->
        IF \E w \in wall_positions :
              w[1] % BoardSize = c[1] /\ w[2] % BoardSize = c[2]
        THEN "W" ELSE "."]

\* the dict built from the wall list: every board cell '.', every listed
\* wall 'W' (a wall outside the board becomes a new key of the dict)
BuildGrid(wall_positions) ==
    [c \in Board \cup wall_positions |-> IF c \in wall_positions THEN "W" ELSE "."]

\* ---------------------------------------------------------------- bfs
\* Expand without the wall test
RECURSIVE ExpandThroughWalls(_, _, _, _, _, _, _)
ExpandThroughWalls(grid, current, path, queue, visited, enq, i) ==
    IF i > Len(MoveNames) THEN [queue |-> queue, visited |-> visited, enq |-> enq]
    ELSE LET move == MoveNames[i]
             next_pos == <<current[1] + MOVES[move][1], current[2] + MOVES[move][2]>>
         IN IF next_pos \in DOMAIN grid /\ next_pos \notin visited
            THEN ExpandThroughWalls(grid, current, path,
                        Append(queue, <<next_pos, Append(path, move)>>),
                        visited \cup {next_pos}, Append(enq, next_pos), i + 1)
            ELSE ExpandThroughWalls(grid, current, path, queue, visited, enq, i + 1)

\* Expand without the visited test
RECURSIVE ExpandRevisiting(_, _, _, _, _, _, _)
ExpandRevisiting(grid, current, path, queue, visited, enq, i) ==
    IF i > Len(MoveNames) THEN [queue |-> queue, visited |-> visited, enq |-> enq]
    ELSE LET move == MoveNames[i]
             next_pos == <<current[1] + MOVES[move][1], current[2] + MOVES[move][2]>>
         IN IF next_pos \in DOMAIN grid /\ grid[next_pos] # "W"
            THEN ExpandRevisiting(grid, current, path,
                        Append(queue, <<next_pos, Append(path, move)>>),
                        visited \cup {next_pos}, Append(enq, next_pos), i + 1)
            ELSE ExpandRevisiting(grid, current, path, queue, visited, enq, i + 1)

\* Expand that leaves visited alone when it enqueues a cell, so that a cell
\* is marked only by the iteration that dequeues it
RECURSIVE ExpandMarkingLate(_, _, _, _, _, _, _)
ExpandMarkingLate(grid, current, path, queue, visited, enq, i) ==
    IF i > Len(MoveNames) THEN [queue |-> queue, visited |-> visited, enq |-> enq]
    ELSE LET move == MoveNames[i]
             next_pos == <<current[1] + MOVES[move][1], current[2] + MOVES[move][2]>>
         IN IF next_pos \in DOMAIN grid /\ grid[next_pos] # "W" /\ next_pos \notin visited
            THEN ExpandMarkingLate(grid, current, path,
                                   Append(queue, <<next_pos, Append(path, move)>>),
                                   visited, Append(enq, next_pos), i + 1)
            ELSE ExpandMarkingLate(grid, current, path, queue, visited, enq, i + 1)

\* the for loop over MOVES.items() of one dequeued cell, from move index i
RECURSIVE Expand(_, _, _, _, _, _, _)
Expand(grid, current, path, queue, visited, enq, i) ==
    IF i > Len(MoveNames) THEN [queue |-> queue, visited |-> visited, enq |-> enq]
    ELSE LET move == MoveNames[i]
             next_pos == <<current[1] + MOVES[move][1], current[2] + MOVES[move][2]>>
         IN IF next_pos \in DOMAIN grid /\ grid[next_pos] # "W" /\ next_pos \notin visited
            THEN Expand(grid, current, path,
                        Append(queue, <<next_pos, Append(path, move)>>),
                        visited \cup {next_pos}, Append(enq, next_pos), i + 1)
            ELSE Expand(grid, current, path, queue, visited, enq, i + 1)

\* BfsStep with queue.pop() in place of queue.popleft()
BfsStepLifo(grid, goal, s) ==
    IF s.returned THEN s
    ELSE IF s.queue = <<>>
    THEN [s EXCEPT !.returned = TRUE, !.path = <<>>]
    ELSE LET last == s.queue[Len(s.queue)]
             rest == [i \in 1 .. Len(s.queue) - 1 |-> s.queue[i]]
             deq == Append(s.dequeued, last[1])
         IN IF last[1] = goal
            THEN [s EXCEPT !.returned = TRUE, !.path = last[2], !.queue = rest,
                           !.dequeued = deq]
            ELSE LET e == Expand(grid, last[1], last[2], rest,
                                 s.visited \cup {last[1]}, s.enqueued, 1)
                 IN [s EXCEPT !.queue = e.queue, !.visited = e.visited,
                              !.dequeued = deq, !.enqueued = e.enq]

\* one iteration that tests for the goal when it looks at a neighbour, before
\* the visited test, and not when it dequeues a cell
BfsStepGoalAtNeighbour(grid, goal, s) ==
    IF s.returned THEN s
    ELSE IF s.queue = <<>>
    THEN [s EXCEPT !.returned = TRUE, !.path = <<>>]
    ELSE LET current == Head(s.queue)[1]
             path == Head(s.queue)[2]
             deq == Append(s.dequeued, current)
             hits == {i \in 1 .. Len(MoveNames) :
                        LET next_pos == <<current[1] + MOVES[MoveNames[i]][1],
                                          current[2] + MOVES[MoveNames[i]][2]>>
                        IN next_pos = goal /\ next_pos \in DOMAIN grid
                             /\ grid[next_pos] # "W"}
         IN IF hits # {}
            THEN [s EXCEPT !.returned = TRUE, !.queue = Tail(s.queue),
                           !.dequeued = deq,
                           !.path = Append(path, MoveNames[CHOOSE i \in hits :
                                                    \A j \in hits : i <= j])]
            ELSE LET e == Expand(grid, current, path, Tail(s.queue),
                                 s.visited \cup {current}, s.enqueued, 1)
                 IN [s EXCEPT !.queue = e.queue, !.visited = e.visited,
                              !.dequeued = deq, !.enqueued = e.enq]

\* one iteration of the while loop on the search state s: the popleft, the
\* goal test and the expansion; a search that has returned stays as it is
BfsStep(grid, goal, s) ==
    IF s.returned THEN s
    ELSE IF s.queue = <<>>
    THEN [s EXCEPT !.returned = TRUE, !.path = <<>>]
    ELSE LET current == Head(s.queue)[1]
             path == Head(s.queue)[2]
             deq == Append(s.dequeued, current)
         IN IF current = goal
            THEN [s EXCEPT !.returned = TRUE, !.path = path, !.queue = Tail(s.queue),
                           !.dequeued = deq]
            ELSE LET e == Expand(grid, current, path, Tail(s.queue),
                                 s.visited \cup {current}, s.enqueued, 1)
                 IN [s EXCEPT !.queue = e.queue, !.visited = e.visited,
                              !.dequeued = deq, !.enqueued = e.enq]

\* 2^k iterations of the while loop
RECURSIVE BfsIterate(_, _, _, _)
BfsIterate(grid, goal, s, k) ==
    IF k = 0 THEN BfsStep(grid, goal, s)
    ELSE LET half == BfsIterate(grid, goal, s, k - 1)
         IN IF half.returned THEN half ELSE BfsIterate(grid, goal, half, k - 1)

\* the loop runs until it returns: every iteration dequeues a cell, and
\* 2^LoopDoublings iterations are more than the cells a grid of the model holds
LoopDoublings == 7

BfsRun(grid, start, goal) ==
    BfsIterate(grid, goal,
               [queue |-> <<<<start, <<>>>>>>, visited |-> {}, returned |-> FALSE,
                path |-> <<>>, dequeued |-> <<>>, enqueued |-> <<start>>],
               LoopDoublings)

bfs(grid, start, goal) == BfsRun(grid, start, goal).path

\* what a finished search leaves behind: the returned path, whether the loop has
\* returned, how many cells it dequeued and enqueued, how many different cells
\* it enqueued
Search(grid, start, goal) ==
    LET run == BfsRun(grid, start, goal)
    IN [path |-> run.path, returned |-> run.returned,
        dequeued |-> Len(run.dequeued), enqueued |-> Len(run.enqueued),
        cells |-> Cardinality({run.enqueued[i] : i \in 1 .. Len(run.enqueued)})]

\* --------------------------------------------------------- Python helpers
\* min with a later element replacing the best one on an equal key
RECURSIVE MinFromLast(_, _, _, _)
MinFromLast(seq, pos, i, best) ==
    IF i > Len(seq) THEN best
    ELSE IF manhattan_distance(pos, seq[i]) <= manhattan_distance(pos, best)
    THEN MinFromLast(seq, pos, i + 1, seq[i])
    ELSE MinFromLast(seq, pos, i + 1, best)

\* min(seq, key = distance to pos) from element i on, best being the least so
\* far: a later element replaces it only when its key is strictly smaller
RECURSIVE MinFrom(_, _, _, _)
MinFrom(seq, pos, i, best) ==
    IF i > Len(seq) THEN best
    ELSE IF manhattan_distance(pos, seq[i]) < manhattan_distance(pos, best)
    THEN MinFrom(seq, pos, i + 1, seq[i])
    ELSE MinFrom(seq, pos, i + 1, best)

\* min(seq, key = lambda coin: manhattan_distance(pos, coin)) of a nonempty list
NearestIn(seq, pos) == MinFrom(seq, pos, 2, seq[1])

\* the elements of seq at the positions lo .. hi that exist
Slice(seq, lo, hi) ==
    LET last == IF hi < Len(seq) THEN hi ELSE Len(seq)
    IN [i \in 1 .. (IF last < lo THEN 0 ELSE last - lo + 1) |-> seq[lo + i - 1]]

\* the seed of the module-level list
Seed == <<<<0, 0>>, <<0, 9>>, <<9, 0>>, <<9, 9>>>>

\* a remove that rebuilds the list from the seed
ListRemoveFromSeed(seq, x) == SelectSeq(Seed, LAMBDA c : c # x)

\* list.remove(x) on a list that holds x: the first occurrence is dropped
ListRemove(seq, x) ==
    LET first == CHOOSE i \in 1 .. Len(seq) : seq[i] = x /\ \A j \in 1 .. i - 1 : seq[j] # x
    IN Slice(seq, 1, first - 1) \o Slice(seq, first + 1, Len(seq))

InList(seq, x) == \E i \in 1 .. Len(seq) : seq[i] = x

\* a fixed default in place of the random choice
FixedChoice == {MoveNames[1]}

\* random.choice(list(MOVES.keys())): any one of the keys
RandomChoice == {MoveNames[i] : i \in 1 .. Len(MoveNames)}

\* the last move of the path in place of the first
LastMoveOf(path) == IF path # <<>> THEN {path[Len(path)]} ELSE RandomChoice

\* the values next_move can take for a bfs result: the first move of a
\* nonempty path, any move for the empty path
ChooseMove(path) == IF path # <<>> THEN {path[1]} ELSE RandomChoice

\* the pruning with < in place of <=
PruneStrict(fakes, current_position, nearest_fake_coin) ==
    IF manhattan_distance(current_position, nearest_fake_coin) < PruneDistance
    THEN ListRemove(fakes, nearest_fake_coin)
    ELSE fakes

\* the proximity pruning of the nearest fake coin
Prune(fakes, current_position, nearest_fake_coin) ==
    IF manhattan_distance(current_position, nearest_fake_coin) <= PruneDistance
    THEN ListRemove(fakes, nearest_fake_coin)
    ELSE fakes

\* a topic test that lets every topic through
AnyTopic(topic) == topic # <<>>

\* msg.topic.endswith("/game_state"), a topic being the sequence of its levels
EndsWithGameState(topic) == Len(topic) >= 2 /\ topic[Len(topic)] = "game_state"

\* ----------------------------------------------------------------- state
None == <<>>
\* next_move before on_message has assigned it
NoMove == "-"
\* a call slot that holds no call, and the slots when on_message is not
\* followed step by step
Idle == [pc |-> "idle", position |-> <<0, 0>>, coins |-> <<>>, nearest |-> None,
         kind |-> "none", path |-> <<>>]
NoCalls == [h \in 1 .. MaxCalls |-> Idle]
NoSearch == [path |-> <<>>, returned |-> FALSE, dequeued |-> 0, enqueued |-> 0, cells |-> 0]

VARIABLES
    fake_coin_positions,  \* the module-level list
    pc,                   \* "waiting": in the network loop, "dispatch": on_message is
                          \* being called with msg, "returned": on_message has returned,
                          \* "raised": on_message raised ValueError
    msg,                  \* the message on_message is called with
    delivered,            \* game_state messages delivered so far
    published,            \* move messages published so far
    nearest,              \* on_message's nearest_coin / nearest_fake_coin, or None
    kind,                 \* which list nearest was taken from: "real", "fake", "none"
    search,               \* the bfs call of this cycle
    next_move,            \* on_message's next_move, or NoMove
    calls                 \* the calls of on_message of the step-by-step
                          \* specification, each with its position and locals

vars == <<fake_coin_positions, pc, msg, delivered, published, nearest, kind, search,
          next_move, calls>>

\* --------------------------------------------------------------- messages
GameStateTopic == <<"games", "TestLobby", "Player3", "game_state">>
OtherTopics == {<<"games", "TestLobby", "lobby">>, <<"games", "TestLobby", "scores">>}

NoPayload == [currentPosition |-> <<0, 0>>, teammatePositions |-> <<>>,
              enemyPositions |-> <<>>, coin1 |-> <<>>, coin2 |-> <<>>,
              coin3 |-> <<>>, walls |-> {}]
NoMsg == [topic |-> <<>>, payload |-> NoPayload]

\* the cells the snapshots of the model are drawn from
Positions == {<<0, 0>>, <<1, 1>>, <<1, 2>>, <<0, 8>>, <<8, 0>>, <<8, 9>>, <<5, 5>>, <<5, 7>>}
CoinCells == {<<5, 7>>, <<5, 3>>}
WallCells == {<<0, 1>>, <<1, 0>>, <<5, 6>>}

RECURSIVE SeqsUpTo(_, _)
SeqsUpTo(S, n) ==
    IF n = 0 THEN {<<>>}
    ELSE LET shorter == SeqsUpTo(S, n - 1)
         IN shorter \cup {Append(q, c) : q \in shorter, c \in S}

SetsUpTo(S, n) == {W \in SUBSET S : Cardinality(W) <= n}

\* a snapshot with other players in it, its coin list dealt to the three coin
\* groups of the payload
PayloadWithPlayers(pos, coins, walls, teammates, enemies) ==
    [currentPosition |-> pos,
     teammatePositions |-> teammates,
     enemyPositions |-> enemies,
     coin1 |-> Slice(coins, 1, 1),
     coin2 |-> Slice(coins, 2, 2),
     coin3 |-> Slice(coins, 3, Len(coins)),
     walls |-> walls]

\* a snapshot without other players
Payload(pos, coins, walls) == PayloadWithPlayers(pos, coins, walls, <<>>, <<>>)

\* the cells the other players of a snapshot stand on
TeammateCells == <<<<0, 2>>>>
EnemyCells == <<<<1, 0>>, <<8, 8>>>>

\* the snapshots of the model: every position, coin list and wall set without
\* other players, and the snapshots without real coins with a teammate and
\* two enemies on the board
Snapshots ==
    {Payload(pos, coins, walls) :
        pos \in Positions, coins \in SeqsUpTo(CoinCells, MaxCoins),
        walls \in SetsUpTo(WallCells, MaxWalls)}
    \cup {PayloadWithPlayers(pos, <<>>, walls, TeammateCells, EnemyCells) :
            pos \in Positions, walls \in SetsUpTo(WallCells, MaxWalls)}

\* ------------------------------------------------------------- on_message
\* the walls of the snapshot together with the cells of the other players
WallsAndPlayers(game_state) ==
    game_state.walls \cup {game_state.teammatePositions[i] :
                              i \in 1 .. Len(game_state.teammatePositions)}
                     \cup {game_state.enemyPositions[i] :
                              i \in 1 .. Len(game_state.enemyPositions)}

\* wall_positions: the walls of the snapshot, and nothing else of it
WallsOf(game_state) == game_state.walls

\* a cycle with real coins that takes the first nearest coin bfs finds a path
\* to, when there is one
RealCoinCycleRetrying(current_position, coin_positions, grid, fakes) ==
    LET reachable == SelectSeq(coin_positions,
                               LAMBDA c : Search(grid, current_position, c).path # <<>>)
        nearest_coin == IF reachable # <<>> THEN NearestIn(reachable, current_position)
                        ELSE NearestIn(coin_positions, current_position)
        run == Search(grid, current_position, nearest_coin)
    IN {[nearest |-> nearest_coin, kind |-> "real", search |-> run,
         next_move |-> m, fakes |-> fakes, raised |-> FALSE] :
           m \in ChooseMove(run.path)}

\* a cycle with real coins that prunes the fallback list as well
RealCoinCyclePruning(current_position, coin_positions, grid, fakes) ==
    LET nearest_coin == NearestIn(coin_positions, current_position)
        run == Search(grid, current_position, nearest_coin)
        pruned == IF fakes # <<>>
                  THEN Prune(fakes, current_position, NearestIn(fakes, current_position))
                  ELSE fakes
    IN {[nearest |-> nearest_coin, kind |-> "real", search |-> run,
         next_move |-> m, fakes |-> pruned, raised |-> FALSE] :
           m \in ChooseMove(run.path)}

\* lines 98-106, the branch of a snapshot with real coins: the possible
\* outcomes, one per value random.choice can return
RealCoinCycle(current_position, coin_positions, grid, fakes) ==
    LET nearest_coin == NearestIn(coin_positions, current_position)
        run == Search(grid, current_position, nearest_coin)
    IN {[nearest |-> nearest_coin, kind |-> "real", search |-> run,
         next_move |-> m, fakes |-> fakes, raised |-> FALSE] :
           m \in ChooseMove(run.path)}

\* lines 109-124, the branch of a snapshot without real coins and a nonempty
\* fake_coin_positions; the second remove raises ValueError when the entry
\* is no longer in the list
FakeCoinCycle(current_position, grid, fakes) ==
    LET nearest_fake_coin == NearestIn(fakes, current_position)
        run == Search(grid, current_position, nearest_fake_coin)
        pruned == Prune(fakes, current_position, nearest_fake_coin)
    IN IF run.path # <<>>
       THEN IF current_position = nearest_fake_coin
            THEN IF InList(pruned, nearest_fake_coin)
                 THEN {[nearest |-> nearest_fake_coin, kind |-> "fake",
                        search |-> run, next_move |-> m,
                        fakes |-> ListRemove(pruned, nearest_fake_coin),
                        raised |-> FALSE] : m \in ChooseMove(run.path)}
                 ELSE {[nearest |-> nearest_fake_coin, kind |-> "fake",
                        search |-> run, next_move |-> m,
                        fakes |-> pruned, raised |-> TRUE] :
                          m \in ChooseMove(run.path)}
            ELSE {[nearest |-> nearest_fake_coin, kind |-> "fake",
                   search |-> run, next_move |-> m,
                   fakes |-> pruned, raised |-> FALSE] :
                     m \in ChooseMove(run.path)}
       ELSE {[nearest |-> nearest_fake_coin, kind |-> "fake", search |-> run,
              next_move |-> m, fakes |-> pruned, raised |-> FALSE] :
                m \in ChooseMove(run.path)}

\* lines 88-127 for one snapshot and one content of fake_coin_positions: the
\* possible outcomes, one per value random.choice can return
Decide(game_state, fakes) ==
    LET current_position == game_state.currentPosition
        coin_positions == game_state.coin1 \o game_state.coin2 \o game_state.coin3
        grid == BuildGrid(WallsOf(game_state))
    IN IF coin_positions # <<>>
       THEN RealCoinCycle(current_position, coin_positions, grid, fakes)
       ELSE IF fakes # <<>>
       THEN FakeCoinCycle(current_position, grid, fakes)
       ELSE {[nearest |-> None, kind |-> "none", search |-> NoSearch,
              next_move |-> m, fakes |-> fakes, raised |-> FALSE] : m \in RandomChoice}

\* the network loop hands the next incoming message to on_message
Receive ==
    /\ pc = "waiting"
    /\ \/ /\ delivered < MaxMsgs
          /\ \E snapshot \in Snapshots :
                 msg' = [topic |-> GameStateTopic, payload |-> snapshot]
          /\ delivered' = delivered + 1
       \/ /\ \E topic \in OtherTopics : msg' = [topic |-> topic, payload |-> NoPayload]
          /\ delivered' = delivered
    /\ pc' = "dispatch"
    /\ nearest' = None /\ kind' = "none" /\ search' = NoSearch /\ next_move' = NoMove
    /\ UNCHANGED <<fake_coin_positions, published>>
    /\ UNCHANGED calls

\* the whole callback, the publish included
on_message ==
    /\ pc = "dispatch"
    /\ IF EndsWithGameState(msg.topic)
       THEN \E d \in Decide(msg.payload, fake_coin_positions) :
                /\ nearest' = d.nearest
                /\ kind' = d.kind
                /\ search' = d.search
                /\ next_move' = d.next_move
                /\ fake_coin_positions' = d.fakes
                /\ IF d.raised
                   THEN pc' = "raised" /\ published' = published
                   ELSE pc' = "returned" /\ published' = published + 1
       ELSE /\ pc' = "returned"
            /\ UNCHANGED <<fake_coin_positions, published, nearest, kind, search,
                           next_move>>
    /\ UNCHANGED <<msg, delivered>>
    /\ UNCHANGED calls

\* on_message has returned: the network loop waits for the next message
LoopForever ==
    /\ pc = "returned"
    /\ pc' = "waiting"
    /\ msg' = NoMsg
    /\ nearest' = None /\ kind' = "none" /\ search' = NoSearch /\ next_move' = NoMove
    /\ UNCHANGED <<fake_coin_positions, delivered, published>>
    /\ UNCHANGED calls

Init ==
    /\ fake_coin_positions = Seed
    /\ pc = "waiting"
    /\ msg = NoMsg
    /\ delivered = 0
    /\ published = 0
    /\ nearest = None /\ kind = "none" /\ search = NoSearch /\ next_move = NoMove
    /\ calls = NoCalls

Next == Receive \/ on_message \/ LoopForever

Spec == Init /\ [][Next]_vars

\* ------------------------------------------------- the path finder alone
\* bfs as on_message calls it, on the first snapshot of a run: the agent at
\* the start cell, a maze of walls, and as the goal a real coin or, without
\* coins, a corner of the fallback list
MazeCells == {<<4, 7>>, <<6, 7>>, <<5, 6>>, <<5, 8>>, <<0, 1>>, <<1, 0>>, <<-1, 0>>,
              <<9, 9>>}
Starts == {<<5, 5>>, <<0, 0>>, <<5, 6>>, <<5, 7>>, <<9, 0>>}
Goals == {<<5, 7>>, <<0, 0>>, <<5, 6>>, <<9, 9>>}

\* the coin lists of the mazes: one coin on a goal cell, the coin (5,7)
\* followed by a second coin, and no coin at all
MazeCoins == {<<goal>> : goal \in Goals} \cup {<<<<5, 7>>, <<5, 3>>>>, <<>>}

Mazes ==
    {Payload(start, coins, walls) :
        start \in Starts, coins \in MazeCoins,
        walls \in SetsUpTo(MazeCells, MaxMazeWalls)}

InitBfs ==
    /\ fake_coin_positions = Seed
    /\ pc = "dispatch"
    /\ \E maze \in Mazes : msg = [topic |-> GameStateTopic, payload |-> maze]
    /\ delivered = 1
    /\ published = 0
    /\ nearest = None /\ kind = "none" /\ search = NoSearch /\ next_move = NoMove
    /\ calls = NoCalls

NextBfs == on_message

SpecBfs == InitBfs /\ [][NextBfs]_vars

\* ------------------------------------------------------- the closed loop
\* the game of the closed loop: no walls, no real coins, the snapshot it
\* sends has the agent where the game has put it
LoopSnapshot(pos) == [topic |-> GameStateTopic, payload |-> Payload(pos, <<>>, {})]

\* the position after the game has applied a move: a move off the board
\* leaves the agent where it is
Applied(pos, move) ==
    LET to == <<pos[1] + MOVES[move][1], pos[2] + MOVES[move][2]>>
    IN IF to \in Board THEN to ELSE pos

\* the snapshot in flight reaches the network loop, which calls on_message
ReceiveLoop ==
    /\ pc = "waiting"
    /\ delivered < MaxLoopMsgs
    /\ pc' = "dispatch"
    /\ delivered' = delivered + 1
    /\ UNCHANGED <<fake_coin_positions, msg, published, nearest, kind, search,
                   next_move>>
    /\ UNCHANGED calls

\* on_message has returned; the game applies the move it published and
\* sends the next snapshot
GameApplies ==
    /\ pc = "returned"
    /\ pc' = "waiting"
    /\ msg' = LoopSnapshot(Applied(msg.payload.currentPosition, next_move))
    /\ nearest' = None /\ kind' = "none" /\ search' = NoSearch /\ next_move' = NoMove
    /\ UNCHANGED <<fake_coin_positions, delivered, published>>
    /\ UNCHANGED calls

\* the first snapshot is in flight, the agent anywhere on the board
InitLoop ==
    /\ fake_coin_positions = Seed
    /\ pc = "waiting"
    /\ \E start \in Board : msg = LoopSnapshot(start)
    /\ delivered = 0
    /\ published = 0
    /\ nearest = None /\ kind = "none" /\ search = NoSearch /\ next_move = NoMove
    /\ calls = NoCalls

NextLoop == ReceiveLoop \/ on_message \/ GameApplies

\* weak fairness of on_message, written with its enabling condition: the
\* action is enabled exactly when pc = "dispatch", and every step of it
\* leaves that state, so WF_vars(on_message) says that the callback does
\* not stay called forever
CallbackReturns == []<>(pc # "dispatch")

\* the snapshot in flight arrives, the callback runs to its end, and the
\* game answers every move with the next snapshot
SpecLoop ==
    /\ InitLoop
    /\ [][NextLoop]_vars
    /\ WF_vars(ReceiveLoop)
    /\ CallbackReturns
    /\ WF_vars(GameApplies)

\* ------------------------------------------------ on_message step by step
\* a loop that hands a message to a new call of on_message while another
\* call is under way
LoopIsThreaded == TRUE

\* loop_forever calls on_message from its own loop, in the thread of main:
\* it takes the next message when the callback has returned
LoopIsFree == \A g \in 1 .. MaxCalls : calls[g].pc = "idle"

\* the coin lists of the snapshots of this specification, which have no walls
StepCoins == {<<>>, <<<<5, 7>>>>}

\* the loop calls on_message with a game_state message
CallOnMessage(h) ==
    /\ calls[h].pc = "idle"
    /\ LoopIsFree
    /\ delivered < MaxMsgs
    /\ \E pos \in Positions, coins \in StepCoins :
          calls' = [calls EXCEPT ![h] = [Idle EXCEPT !.pc = "select",
                                                     !.position = pos,
                                                     !.coins = coins]]
    /\ delivered' = delivered + 1
    /\ UNCHANGED <<fake_coin_positions, pc, msg, published, nearest, kind, search,
                   next_move>>

\* lines 88-111 of call h: the map is built, the target selected from the
\* real coins or from fake_coin_positions as it is now, and bfs called
SelectNearest(h) ==
    /\ calls[h].pc = "select"
    /\ LET c == calls[h]
           from == IF c.coins # <<>> THEN c.coins ELSE fake_coin_positions
       IN IF from = <<>>
          THEN calls' = [calls EXCEPT ![h].pc = "update"]
          ELSE calls' = [calls EXCEPT
                           ![h] = [c EXCEPT
                                     !.pc = "update",
                                     !.nearest = NearestIn(from, c.position),
                                     !.kind = IF c.coins # <<>> THEN "real" ELSE "fake",
                                     !.path = bfs(BuildGrid({}), c.position,
                                                  NearestIn(from, c.position))]]
    /\ UNCHANGED <<fake_coin_positions, pc, msg, delivered, published, nearest, kind,
                   search, next_move>>

\* lines 113-130 of call h: the removal from fake_coin_positions as it is
\* now (list.remove raises ValueError for an entry that is not in the list),
\* the choice of the move, and the publish
RemoveAndPublish(h) ==
    /\ calls[h].pc = "update"
    /\ LET c == calls[h]
           first == c.kind = "fake"
                      /\ manhattan_distance(c.position, c.nearest) <= PruneDistance
           second == c.kind = "fake" /\ c.path # <<>> /\ c.position = c.nearest
       IN IF (first /\ ~InList(fake_coin_positions, c.nearest)) \/ second
          THEN /\ calls' = [calls EXCEPT ![h].pc = "raised"]
               /\ UNCHANGED <<fake_coin_positions, published>>
          ELSE /\ fake_coin_positions' =
                     IF c.kind = "fake"
                     THEN Prune(fake_coin_positions, c.position, c.nearest)
                     ELSE fake_coin_positions
               /\ ChooseMove(c.path) # {}
               /\ calls' = [calls EXCEPT ![h] = Idle]
               /\ published' = published + 1
    /\ UNCHANGED <<pc, msg, delivered, nearest, kind, search, next_move>>

NextSteps ==
    \E h \in 1 .. MaxCalls : CallOnMessage(h) \/ SelectNearest(h) \/ RemoveAndPublish(h)

SpecSteps == Init /\ [][NextSteps]_vars

\* ------------------------------------------------------ reference notions
\* the snapshot of the cycle in progress
current_position == msg.payload.currentPosition
wall_positions == msg.payload.walls
coin_positions == msg.payload.coin1 \o msg.payload.coin2 \o msg.payload.coin3

\* on_message has handled a game_state message and returned
CycleDone == pc = "returned" /\ msg.topic = GameStateTopic

\* a cell the agent may step into
Passable(walls, c) == c \in Board /\ c \notin walls

Neighbours4(c) == {<<c[1] - 1, c[2]>>, <<c[1] + 1, c[2]>>, <<c[1], c[2] - 1>>, <<c[1], c[2] + 1>>}

Unreachable == 0 - 1

\* the cells at d steps from the start are the frontier: the number of steps
\* of a shortest route from start to goal, every step entering a passable
\* cell of the board, or Unreachable
RECURSIVE Levels(_, _, _, _, _)
Levels(walls, frontier, seen, goal, d) ==
    IF goal \in frontier THEN d
    ELSE LET nxt == {n \in UNION {Neighbours4(c) : c \in frontier} :
                        Passable(walls, n) /\ n \notin seen}
         IN IF nxt = {} THEN Unreachable
            ELSE Levels(walls, nxt, seen \cup nxt, goal, d + 1)

ShortestDistance(walls, start, goal) == Levels(walls, {start}, {start}, goal, 0)

\* the cell reached from start by the first k moves of path
RECURSIVE CellAfter(_, _, _)
CellAfter(start, path, k) ==
    IF k = 0 THEN start
    ELSE LET before == CellAfter(start, path, k - 1)
         IN <<before[1] + MOVES[path[k]][1], before[2] + MOVES[path[k]][2]>>

\* ------------------------------------------------------------------ C1
\* C1: when a route from start to goal exists and start # goal, the path bfs
\* returns is as long as the shortest route.
C1_ShortestPath ==
    (CycleDone /\ kind # "none" /\ current_position # nearest
        /\ ShortestDistance(wall_positions, current_position, nearest) # Unreachable)
    => Len(search.path) = ShortestDistance(wall_positions, current_position, nearest)

\* a detour: the shortest route is longer than the Manhattan distance
C1_Witness ==
    /\ CycleDone /\ kind = "real"
    /\ Len(search.path) = ShortestDistance(wall_positions, current_position, nearest)
    /\ Len(search.path) > manhattan_distance(current_position, nearest) + 2

\* ------------------------------------------------------------------ C2
\* C2: a nonempty path returned by bfs is a walk from start over passable
\* cells of the board that ends in the goal.
C2_ValidWalk ==
    (CycleDone /\ search.path # <<>>)
    => /\ \A k \in 1 .. Len(search.path) :
              Passable(wall_positions, CellAfter(current_position, search.path, k))
       /\ CellAfter(current_position, search.path, Len(search.path)) = nearest

\* a walk that had to go around walls
C2_Witness ==
    /\ CycleDone /\ Len(search.path) >= 4
    /\ Len(search.path) > manhattan_distance(current_position, nearest)
    /\ CellAfter(current_position, search.path, Len(search.path)) = nearest

\* ------------------------------------------------------------------ C3
\* C3: bfs returns, and returns the empty path exactly when start = goal or
\* no route from start to goal exists.
C3_EmptyIffNoRoute ==
    (CycleDone /\ kind # "none")
    => /\ search.returned
       /\ (search.path = <<>>)
              <=> (current_position = nearest
                   \/ ShortestDistance(wall_positions, current_position, nearest) = Unreachable)

\* a goal walled off from a start that can move: the search went through the
\* cells it could reach and returned the empty path
C3_Witness ==
    /\ CycleDone /\ kind = "real" /\ search.path = <<>> /\ search.returned
    /\ current_position # nearest /\ nearest \notin wall_positions
    /\ search.dequeued > 50

\* ------------------------------------------------------------------ C4
\* the positions of seq whose element is nearest to pos
NearestIndices(seq, pos) ==
    {i \in 1 .. Len(seq) :
        \A j \in 1 .. Len(seq) :
            manhattan_distance(pos, seq[i]) <= manhattan_distance(pos, seq[j])}

\* the first element of seq among those nearest to pos
FirstNearest(seq, pos) ==
    seq[CHOOSE i \in NearestIndices(seq, pos) : \A j \in NearestIndices(seq, pos) : i <= j]

\* on_message handles the game_state message it was called with and returns
CycleStep == pc = "dispatch" /\ msg.topic = GameStateTopic /\ pc' = "returned"

\* C4: with real coins the target is the first nearest real coin, taken from
\* the real coins; without real coins it is the first nearest entry of the
\* fallback list as it is when the cycle starts; with neither there is none.
C4_TargetSelection ==
    [][CycleStep =>
        IF coin_positions # <<>>
        THEN kind' = "real" /\ nearest' = FirstNearest(coin_positions, current_position)
        ELSE IF fake_coin_positions # <<>>
        THEN kind' = "fake"
             /\ nearest' = FirstNearest(fake_coin_positions, current_position)
        ELSE kind' = "none" /\ nearest' = None]_vars

\* a tie between two fallback entries, won by the earlier one, (0,9) and (9,0)
\* being equally far from (5,5) once (9,9) is gone
C4_Witness ==
    /\ CycleDone /\ kind = "fake" /\ nearest = <<0, 9>>
    /\ current_position = <<5, 5>>
    /\ InList(fake_coin_positions, <<9, 0>>)
    /\ ~InList(fake_coin_positions, <<9, 9>>)

\* ------------------------------------------------------------------ C5
ToSet(seq) == {seq[i] : i \in 1 .. Len(seq)}

\* C5: no step adds an entry to the fallback list: the list after a step holds
\* only entries it held before, no more of them, and an empty list stays empty.
C5_FallbackShrinks ==
    [][/\ ToSet(fake_coin_positions') \subseteq ToSet(fake_coin_positions)
       /\ Len(fake_coin_positions') <= Len(fake_coin_positions)
       /\ (fake_coin_positions = <<>> => fake_coin_positions' = <<>>)]_vars

\* a cycle run on the exhausted list has left it empty
C5_Witness ==
    /\ CycleDone /\ kind = "none" /\ coin_positions = <<>>
    /\ fake_coin_positions = <<>>

\* ------------------------------------------------------------------ C6
\* C6 as claimed: after any decision cycle no entry within Manhattan distance
\* 2 of the current position is left in the fallback list.
C6_AsClaimed ==
    CycleDone
    => \A i \in 1 .. Len(fake_coin_positions) :
           manhattan_distance(current_position, fake_coin_positions[i]) > 2

\* C6 amended: after any decision cycle whose snapshot has no real coins, no
\* entry within Manhattan distance 2 of the current position is left in the
\* fallback list.
C6_Amended ==
    (CycleDone /\ coin_positions = <<>>)
    => \A i \in 1 .. Len(fake_coin_positions) :
           manhattan_distance(current_position, fake_coin_positions[i]) > 2

\* the agent stands at distance 2 of the entry (0,0) it selected, and the
\* entry is gone
C6_Witness ==
    /\ CycleDone /\ coin_positions = <<>> /\ kind = "fake"
    /\ nearest = <<0, 0>> /\ current_position = <<1, 1>>
    /\ ~InList(fake_coin_positions, <<0, 0>>)

\* ------------------------------------------------------------------ C7
\* seq without the entries equal to x
Without(seq, x) == SelectSeq(seq, LAMBDA c : c # x)

\* C7: in a cycle without real coins and with a nonempty fallback list, the
\* list afterwards is the list before without the selected entry when that
\* entry is within distance 2 of the current position, and the list before
\* otherwise, whatever path bfs returned.
C7_PruneSelectedOnly ==
    [][(CycleStep /\ coin_positions = <<>> /\ fake_coin_positions # <<>>)
        => fake_coin_positions' =
              IF manhattan_distance(current_position, nearest') <= 2
              THEN Without(fake_coin_positions, nearest')
              ELSE fake_coin_positions]_vars

\* the selected entry is walled off (empty path) and still removed, the
\* other entries are kept
C7_Witness ==
    /\ CycleDone /\ kind = "fake" /\ search.path = <<>>
    /\ current_position # nearest
    /\ manhattan_distance(current_position, nearest) <= 2
    /\ ~InList(fake_coin_positions, nearest)
    /\ Len(fake_coin_positions) >= 2

\* ------------------------------------------------------------------ C8
\* C8: outside a running callback the moves published are as many as the
\* game_state messages delivered, a running callback owes the one move of
\* its game_state message and nothing for another topic, and the move of a
\* finished cycle is one of the four.
C8_OneMovePerCycle ==
    /\ pc # "dispatch" => published = delivered
    /\ pc = "dispatch" =>
           published = delivered - (IF msg.topic = GameStateTopic THEN 1 ELSE 0)
    /\ CycleDone => next_move \in {"UP", "DOWN", "LEFT", "RIGHT"}
    /\ (pc = "returned" /\ ~msg.topic = GameStateTopic) => next_move = NoMove

\* two cycles have published two moves, and a message of another topic has
\* been handled since
C8_Witness ==
    /\ pc = "returned" /\ msg.topic \in OtherTopics
    /\ delivered = 2 /\ published = 2

\* ------------------------------------------------------------------ C9
\* C9: the move of a cycle whose path is nonempty is the first move of the
\* path; it leads into a passable cell of the board from which the target is
\* one step nearer than from the current position.
C9_FirstMoveOfPath ==
    (CycleDone /\ kind # "none" /\ search.path # <<>>)
    => /\ next_move = search.path[1]
       /\ LET step == CellAfter(current_position, <<next_move>>, 1)
          IN /\ Passable(wall_positions, step)
             /\ ShortestDistance(wall_positions, step, nearest)
                  = ShortestDistance(wall_positions, current_position, nearest) - 1

\* scenario A of the specification: from (5,5) to the coin at (5,7), no walls
C9_Witness ==
    /\ CycleDone /\ kind = "real" /\ current_position = <<5, 5>>
    /\ nearest = <<5, 7>> /\ wall_positions = {}
    /\ search.path = <<"RIGHT", "RIGHT">> /\ next_move = "RIGHT"

\* ----------------------------------------------------------------- C10
\* the moves a cycle can emit when it ends without a target or without a
\* path, and the four moves when it ends with a path
EmittableWithoutPath(outcomes) ==
    IF \A d \in outcomes : d.kind = "none" \/ d.search.path = <<>>
    THEN {d.next_move : d \in outcomes}
    ELSE {"UP", "DOWN", "LEFT", "RIGHT"}

\* C10: a cycle that ends without a target or without a path can emit each of
\* the four moves, and emits nothing else.
C10_RandomMove ==
    /\ (pc = "dispatch" /\ msg.topic = GameStateTopic)
         => EmittableWithoutPath(Decide(msg.payload, fake_coin_positions))
              = {"UP", "DOWN", "LEFT", "RIGHT"}
    /\ (CycleDone /\ (kind = "none" \/ search.path = <<>>))
         => next_move \in {"UP", "DOWN", "LEFT", "RIGHT"}

\* a cycle whose only coin is walled off has emitted LEFT
C10_Witness ==
    /\ CycleDone /\ kind = "real" /\ search.path = <<>>
    /\ current_position # nearest /\ next_move = "LEFT"

\* ------------------------------------------------------------------ C11
\* a game_state message is about to be handled
CycleAttempt == pc = "dispatch" /\ msg.topic = GameStateTopic

\* C11: a decision cycle whose snapshot lists at least one real coin leaves
\* fake_coin_positions exactly as it was, wherever the agent stands and
\* whether or not bfs finds a path to the coin
C11_RealCoinKeepsFallback ==
    [][(CycleAttempt /\ coin_positions # <<>>)
          => fake_coin_positions' = fake_coin_positions]_vars

\* a real-coin cycle of a walled-in agent standing on a fallback coordinate
\* that is still in the list: no path, and the entry survives
C11_Witness ==
    /\ CycleDone
    /\ kind = "real"
    /\ current_position = <<0, 0>>
    /\ search.path = <<>>
    /\ InList(fake_coin_positions, <<0, 0>>)

\* ------------------------------------------------------------------ C12
\* the order UP < DOWN < LEFT < RIGHT of the claim, each move with its offset
TieOrder == <<"UP", "DOWN", "LEFT", "RIGHT">>
TieOffset == <<<<-1, 0>>, <<1, 0>>, <<0, -1>>, <<0, 1>>>>

MovedBy(c, i) == <<c[1] + TieOffset[i][1], c[2] + TieOffset[i][2]>>

\* levels[k] holds the passable cells k - 1 steps away from the goal of the
\* first level; levels are added until one holds a neighbour of start, or
\* until no cell is left
RECURSIVE LevelsToGoal(_, _, _, _)
LevelsToGoal(walls, start, levels, seen) ==
    LET frontier == levels[Len(levels)]
        nxt == {n \in UNION {Neighbours4(c) : c \in frontier} :
                   Passable(walls, n) /\ n \notin seen}
    IN IF frontier = {} \/ Neighbours4(start) \cap frontier # {} THEN levels
       ELSE LevelsToGoal(walls, start, Append(levels, nxt), seen \cup nxt)

\* from cell c, r steps away from the goal: at every cell the earliest move
\* of TieOrder that enters a cell one step nearer to the goal
RECURSIVE Greedy(_, _, _)
Greedy(levels, c, r) ==
    IF r = 0 THEN <<>>
    ELSE LET i == CHOOSE j \in 1 .. 4 :
                    /\ MovedBy(c, j) \in levels[r]
                    /\ \A h \in 1 .. j - 1 : MovedBy(c, h) \notin levels[r]
         IN <<TieOrder[i]>> \o Greedy(levels, MovedBy(c, i), r - 1)

\* the least of the shortest routes from start to goal in the lexicographic
\* order of TieOrder, <<>> when there is none or start = goal
LexLeastShortest(walls, start, goal) ==
    IF start = goal \/ ~Passable(walls, goal) THEN <<>>
    ELSE LET levels == LevelsToGoal(walls, start, <<{goal}>>, {goal})
         IN IF levels[Len(levels)] = {} THEN <<>>
            ELSE Greedy(levels, start, Len(levels))

\* C12: among the shortest paths from start to goal bfs returns the least in
\* the lexicographic order of move sequences under UP < DOWN < LEFT < RIGHT,
\* so its first move is the earliest direction that starts a shortest path
C12_TieBreak ==
    (CycleDone /\ kind # "none")
        => search.path = LexLeastShortest(wall_positions, current_position, nearest)

\* from (5,5) to (0,0) on a board without walls there are 252 shortest
\* paths; the one returned goes up five times, then left five times
C12_Witness ==
    /\ CycleDone
    /\ current_position = <<5, 5>>
    /\ nearest = <<0, 0>>
    /\ Cardinality(wall_positions) <= 1
    /\ search.path = <<"UP", "UP", "UP", "UP", "UP",
                       "LEFT", "LEFT", "LEFT", "LEFT", "LEFT">>

\* ------------------------------------------------------------------ C13
\* the target, the path and the list afterwards as values of the position,
\* the real coins, the walls and the fallback list alone
TargetFrom(pos, coins, fakes) ==
    IF coins # <<>> THEN FirstNearest(coins, pos)
    ELSE IF fakes # <<>> THEN FirstNearest(fakes, pos)
    ELSE None

PathFrom(pos, coins, walls, fakes) ==
    IF coins = <<>> /\ fakes = <<>> THEN <<>>
    ELSE LexLeastShortest(walls, pos, TargetFrom(pos, coins, fakes))

FakesFrom(pos, coins, fakes) ==
    IF coins = <<>> /\ fakes # <<>>
          /\ manhattan_distance(pos, TargetFrom(pos, coins, fakes)) <= 2
    THEN Without(fakes, TargetFrom(pos, coins, fakes))
    ELSE fakes

\* C13: the target, the path, the emitted move and the updated fallback
\* list of a cycle are determined by the current position, the real coins
\* and the walls of this snapshot and by the fallback list as the cycle
\* finds it: not by earlier snapshots, nor by the positions of teammates
\* or enemies (the move is drawn from the four moves when the path is empty)
C13_Memoryless ==
    [][CycleAttempt =>
        /\ pc' = "returned"
        /\ nearest' = TargetFrom(current_position, coin_positions, fake_coin_positions)
        /\ search'.path = PathFrom(current_position, coin_positions,
                                   wall_positions, fake_coin_positions)
        /\ next_move' \in IF search'.path # <<>> THEN {search'.path[1]}
                          ELSE {"UP", "DOWN", "LEFT", "RIGHT"}
        /\ fake_coin_positions' = FakesFrom(current_position, coin_positions,
                                            fake_coin_positions)]_vars

\* a later cycle of a run whose path goes through the cell a teammate stands
\* on, and whose snapshot has an enemy on the board as well
C13_Witness ==
    /\ CycleDone
    /\ delivered >= 2
    /\ msg.payload.teammatePositions = <<<<0, 2>>>>
    /\ msg.payload.enemyPositions # <<>>
    /\ current_position = <<1, 2>>
    /\ nearest = <<0, 0>>
    /\ search.path = <<"UP", "LEFT", "LEFT">>

\* ------------------------------------------------------------------ C14
\* the obstacle map on_message builds for the snapshot being handled
GridOfSnapshot == BuildGrid(wall_positions)

\* C14 as claimed: wall coordinates outside 0..9 are left out when the map
\* is built, so the map has exactly the cells of the board as its domain
C14_AsClaimed == CycleDone => DOMAIN GridOfSnapshot = Board

\* C14 as amended: a wall coordinate outside 0..9 becomes one more key of the
\* map, marked as a wall, so the domain of the map is the board together
\* with the listed walls; such a key changes nothing in what bfs returns
C14_Amended ==
    (CycleDone /\ kind # "none")
        => /\ DOMAIN GridOfSnapshot = Board \cup wall_positions
           /\ \A c \in DOMAIN GridOfSnapshot :
                 GridOfSnapshot[c] = IF c \in wall_positions THEN "W" ELSE "."
           /\ search = Search(BuildGrid(wall_positions \cap Board),
                              current_position, nearest)

\* a search from (0,0), whose first expansion step looks up (-1,0), a listed
\* wall outside the board
C14_Witness ==
    /\ CycleDone
    /\ <<-1, 0>> \in wall_positions
    /\ current_position = <<0, 0>>
    /\ search.path # <<>>

\* ------------------------------------------------------------------ C15
\* C15: a coin coordinate that is also listed as a wall is a wall in the map;
\* when it is the selected target and is not the current position, bfs
\* returns the empty path and the cycle still publishes one of the four moves
C15_WallWinsOverCoin ==
    (CycleDone /\ kind # "none" /\ nearest \in wall_positions
        /\ nearest # current_position)
        => /\ GridOfSnapshot[nearest] = "W"
           /\ search.path = <<>>
           /\ next_move \in {"UP", "DOWN", "LEFT", "RIGHT"}
           /\ published = 1

\* the only coin of the snapshot, (5,6), is listed as a wall, and the agent
\* stands next to it with nothing else in the way
C15_Witness ==
    /\ CycleDone
    /\ kind = "real"
    /\ coin_positions = <<<<5, 6>>>>
    /\ wall_positions = {<<5, 6>>}
    /\ current_position = <<5, 5>>
    /\ search.path = <<>>
    /\ next_move \in {"UP", "DOWN", "LEFT", "RIGHT"}

\* ------------------------------------------------------------------ C16
\* C16: bfs terminates: every cell is put on the queue at most once, at most
\* 100 cells are taken off it, and the decision cycle runs to completion
C16_BfsTerminates ==
    /\ pc # "raised"
    /\ (CycleDone /\ kind # "none")
         => /\ search.returned
            /\ search.enqueued = search.cells
            /\ search.cells <= 100
            /\ search.dequeued <= 100
            /\ search.dequeued <= search.enqueued
            /\ published = 1

\* a goal closed in by four walls: bfs visits every other free cell of the
\* board, 95 of them, before it gives up
C16_Witness ==
    /\ CycleDone
    /\ search.returned
    /\ search.path = <<>>
    /\ search.dequeued = 95
    /\ search.enqueued = 95

\* ------------------------------------------------------------------ C17
\* the calls of on_message that have begun and not returned
UnderWay == {h \in 1 .. MaxCalls : calls[h].pc # "idle"}

\* C17: at most one decision cycle is under way at a time, so the selection
\* and the removal of a cycle are not interleaved with those of another: a
\* cycle that has selected a fallback entry finds it in the list when it
\* comes to remove it, and no removal raises
C17_MutualExclusion ==
    /\ Cardinality(UnderWay) <= 1
    /\ \A h \in 1 .. MaxCalls :
          /\ calls[h].pc # "raised"
          /\ (calls[h].pc = "update" /\ calls[h].kind = "fake")
                => InList(fake_coin_positions, calls[h].nearest)

\* a later cycle between its selection and its removal: the agent is next to
\* the entry it selected, and an earlier cycle has removed another entry
C17_Witness ==
    \E h \in 1 .. MaxCalls :
        /\ calls[h].pc = "update"
        /\ calls[h].kind = "fake"
        /\ manhattan_distance(calls[h].position, calls[h].nearest) <= 2
        /\ Len(fake_coin_positions) = 3
        /\ delivered >= 2

\* ------------------------------------------------------------------ C18
\* C18: a cycle removes at most one entry of fake_coin_positions, and only
\* the selected entry, which is in the list; a nonempty path means the
\* target is not the current position, so the second removal (lines 120-121)
\* is never run, and no removal of an absent entry aborts the cycle
C18_SingleRemoval ==
    [][CycleAttempt =>
        /\ pc' = "returned"
        /\ published' = published + 1
        /\ Len(fake_coin_positions') >= Len(fake_coin_positions) - 1
        /\ (fake_coin_positions' # fake_coin_positions
              => /\ InList(fake_coin_positions, nearest')
                 /\ fake_coin_positions' = Without(fake_coin_positions, nearest'))
        /\ (search'.path # <<>> => current_position # nearest')]_vars

\* the agent stands on the fallback entry it selects: the entry is removed
\* by the first removal, the path is empty and the cycle publishes
C18_Witness ==
    /\ CycleDone
    /\ kind = "fake"
    /\ current_position = nearest
    /\ search.path = <<>>
    /\ ~InList(fake_coin_positions, nearest)
    /\ Len(fake_coin_positions) = 3
    /\ published >= 1

\* ------------------------------------------------------------------ C19
\* what the cycle of a first snapshot selects from: the real coins, or the
\* fallback list as seeded when there are none
Candidates == IF coin_positions # <<>> THEN coin_positions ELSE Seed

\* a candidate other than the first nearest one can be reached from the agent
SomeOtherReachable ==
    \E i \in 1 .. Len(Candidates) :
        /\ Candidates[i] # FirstNearest(Candidates, current_position)
        /\ ShortestDistance(wall_positions, current_position, Candidates[i]) > 0

\* C19: the target is selected by distance alone; when no path leads to the
\* nearest coin (or fallback coordinate) the cycle keeps it as its target,
\* ends without a path and publishes a random move, even if a farther
\* candidate can be reached
C19_NoSecondCandidate ==
    (CycleDone
        /\ ShortestDistance(wall_positions, current_position,
                            FirstNearest(Candidates, current_position))
             = Unreachable)
        => /\ nearest = FirstNearest(Candidates, current_position)
           /\ search.path = <<>>
           /\ next_move \in {"UP", "DOWN", "LEFT", "RIGHT"}

\* the nearest coin, (5,7), is closed in by four walls; the other coin,
\* (5,3), is two free steps away from the agent; the cycle ends without a path
C19_Witness ==
    /\ CycleDone
    /\ current_position = <<5, 5>>
    /\ coin_positions = <<<<5, 7>>, <<5, 3>>>>
    /\ nearest = <<5, 7>>
    /\ SomeOtherReachable
    /\ ShortestDistance(wall_positions, current_position, <<5, 3>>) = 2
    /\ search.path = <<>>
    /\ next_move = "LEFT"

\* ------------------------------------------------------------------ C20
\* C20: in the closed loop (no walls, no real coins, every published move
\* applied by the game, a move off the board leaving the agent in place),
\* from any start position fake_coin_positions becomes empty, and every
\* cycle after that selects no target and leaves the list empty
C20_ClosedLoopLiveness ==
    /\ <>(fake_coin_positions = <<>>)
    /\ [][(CycleAttempt /\ fake_coin_positions = <<>>)
            => (pc' = "returned" /\ kind' = "none" /\ nearest' = None
                /\ fake_coin_positions' = <<>>)]_vars

\* a cycle without a target in the closed loop, the list being empty
C20_Witness ==
    /\ CycleDone
    /\ fake_coin_positions = <<>>
    /\ kind = "none"
    /\ next_move \in {"UP", "DOWN", "LEFT", "RIGHT"}
    /\ delivered > 4

====
